---- MODULE Spec2Model ----
(***************************************************************************)
(* A model of stdio_server.py: the YouTube transcript tool.                *)
(*                                                                         *)
(* Strings that the code inspects character by character (URLs) are        *)
(* sequences of one-character strings; strings that the code only builds   *)
(* and passes on (messages, ids, rendered times, JSON text) are TLA+       *)
(* strings.  Floating-point seconds are integers counting tenths of a      *)
(* second.  A Python dict is a record whose DOMAIN is the set of keys.     *)
(***************************************************************************)
EXTENDS Integers, Sequences, FiniteSets, TLC

VARIABLES
    ex_url, ex_out,          \* _extract_video_id: its argument and its outcome
    ft_in, ft_out,           \* _format_time: its argument and its result
    pc, name, arguments, video_id, raw_transcript, http, calls,
    result, raised, response, config

vars == <<ex_url, ex_out, ft_in, ft_out, pc, name, arguments, video_id,
          raw_transcript, http, calls, result, raised, response, config>>

extractVars == <<ex_url, ex_out>>
formatVars == <<ft_in, ft_out>>
toolVars == <<pc, name, arguments, video_id, raw_transcript, http, calls,
              result, raised, response, config>>

----------------------------------------------------------------------------
(* Exceptions *)

NoExc == [kind |-> "None", msg |-> ""]

Exc(kind, msg) == [kind |-> kind, msg |-> msg]

\* The classes the code can meet that derive from ValueError.
ValueErrorKinds == {"ValueError", "JSONDecodeError", "UnicodeDecodeError"}

\* isinstance(e, cls) for the two classes the handlers name.
IsInstance(e, cls) ==
    CASE cls = "ValueError" -> e.kind \in ValueErrorKinds
      [] cls = "Exception" -> e.kind # "None"
      [] OTHER -> e.kind = cls

----------------------------------------------------------------------------
(* Characters and strings *)

RECURSIVE Str(_)
\* The string spelled by a sequence of characters.
Str(cs) == IF cs = <<>> THEN "" ELSE Head(cs) \o Str(Tail(cs))

\* The character class [a-zA-Z0-9_-].
IdChars ==
    {"a", "b", "c", "d", "e", "f", "g", "h", "i", "j", "k", "l", "m",
     "n", "o", "p", "q", "r", "s", "t", "u", "v", "w", "x", "y", "z",
     "A", "B", "C", "D", "E", "F", "G", "H", "I", "J", "K", "L", "M",
     "N", "O", "P", "Q", "R", "S", "T", "U", "V", "W", "X", "Y", "Z",
     "0", "1", "2", "3", "4", "5", "6", "7", "8", "9", "_", "-"}

\* The repetition count {11} of the capture group.
IdLen == 11

\* The literal `lit` stands in `url` at position p.
LitAt(url, p, lit) ==
    /\ p >= 1
    /\ p + Len(lit) - 1 <= Len(url)
    /\ \A k \in 1..Len(lit) : url[p + k - 1] = lit[k]

\* ([a-zA-Z0-9_-]{11}) matches at position p.
GroupAt(url, p) ==
    /\ p >= 1
    /\ p + IdLen - 1 <= Len(url)
    /\ \A k \in 0..(IdLen - 1) : url[p + k] \in IdChars

\* The text of the capture group that starts at position p.
Group(url, p) == Str(SubSeq(url, p, p + IdLen - 1))

YoutubeCom == <<"y", "o", "u", "t", "u", "b", "e", ".", "c", "o", "m", "/">>

\* The alternatives of the first pattern, in the order the regex lists them.
Alternatives ==
    << YoutubeCom \o <<"w", "a", "t", "c", "h", "?", "v", "=">>,
       <<"y", "o", "u", "t", "u", ".", "b", "e", "/">>,
       YoutubeCom \o <<"e", "m", "b", "e", "d", "/">>,
       YoutubeCom \o <<"v", "/">>,
       YoutubeCom \o <<"s", "h", "o", "r", "t", "s", "/">> >>

NoMatch == [matched |-> FALSE, group |-> ""]

Match(g) == [matched |-> TRUE, group |-> g]

RECURSIVE TryAlternatives(_, _, _)
\* The first pattern anchored at p: the alternatives are tried in order.
TryAlternatives(url, p, k) ==
    IF k > Len(Alternatives) THEN NoMatch
    ELSE IF /\ LitAt(url, p, Alternatives[k])
            /\ GroupAt(url, p + Len(Alternatives[k]))
         THEN Match(Group(url, p + Len(Alternatives[k])))
         ELSE TryAlternatives(url, p, k + 1)

RECURSIVE SearchPattern1(_, _)
\* re.search on the first pattern: the leftmost position that matches.
SearchPattern1(url, p) ==
    IF p > Len(url) THEN NoMatch
    ELSE LET m == TryAlternatives(url, p, 1)
         IN  IF m.matched THEN m ELSE SearchPattern1(url, p + 1)

RECURSIVE DotStarEnd(_, _)
\* `.*` from position s: the first position it cannot take (a line break
\* or the end of the string).
DotStarEnd(url, s) ==
    IF s > Len(url) \/ url[s] = "\n" THEN s ELSE DotStarEnd(url, s + 1)

\* [\?&]v=([a-zA-Z0-9_-]{11}) matches at position q.
ParamAt(url, q) ==
    /\ q >= 1
    /\ q <= Len(url)
    /\ url[q] \in {"?", "&"}
    /\ LitAt(url, q + 1, <<"v", "=">>)
    /\ GroupAt(url, q + 3)

RECURSIVE Backtrack(_, _, _)
\* `.*` is greedy: it gives characters back one at a time, so the last
\* parameter in its reach is the one that matches.
Backtrack(url, s, q) ==
    IF q < s THEN NoMatch
    ELSE IF ParamAt(url, q) THEN Match(Group(url, q + 3))
         ELSE Backtrack(url, s, q - 1)

\* The second pattern anchored at p.
Pattern2At(url, p) ==
    IF LitAt(url, p, YoutubeCom)
    THEN Backtrack(url, p + Len(YoutubeCom),
                   DotStarEnd(url, p + Len(YoutubeCom)))
    ELSE NoMatch

RECURSIVE SearchPattern2(_, _)
\* re.search on the second pattern.
SearchPattern2(url, p) ==
    IF p > Len(url) THEN NoMatch
    ELSE LET m == Pattern2At(url, p)
         IN  IF m.matched THEN m ELSE SearchPattern2(url, p + 1)

\* re.search(patterns[k], url), k counted from 1.
re_search(k, url) ==
    IF k = 1 THEN SearchPattern1(url, 1) ELSE SearchPattern2(url, 1)

Returned(v) == [ok |-> TRUE, value |-> v, exc |-> NoExc]

Raised(e) == [ok |-> FALSE, value |-> "", exc |-> e]

\* As _extract_video_id, with the two patterns listed the other way round.
_extract_video_id_swapped(url) ==
    LET first == re_search(2, url)
    IN  IF first.matched THEN Returned(first.group)
        ELSE LET second == re_search(1, url)
             IN  IF second.matched THEN Returned(second.group)
                 ELSE Raised(Exc("ValueError", "No valid YouTube video ID found in URL"))

\* _extract_video_id(url): the group of the first pattern that matches, or
\* ValueError.
_extract_video_id(url) ==
    LET first == re_search(1, url)
    IN  IF first.matched THEN Returned(first.group)
        ELSE LET second == re_search(2, url)
             IN  IF second.matched THEN Returned(second.group)
                 ELSE Raised(Exc("ValueError", "No valid YouTube video ID found in URL"))

----------------------------------------------------------------------------
(* _format_time *)

\* As int, rounding to the nearest whole second.
int_rounds(tenths) == (tenths + 5) \div 10

\* int(seconds) of a float given in tenths of a second: toward zero.
int(tenths) ==
    IF tenths >= 0 THEN tenths \div 10 ELSE -((-tenths) \div 10)

\* The format specification 02d.
Format02d(n) ==
    IF n >= 0 /\ n < 10 THEN "0" \o ToString(n) ELSE ToString(n)

_format_time(seconds) ==
    LET total_seconds == int(seconds)
        hours == total_seconds \div 3600
        minutes == (total_seconds % 3600) \div 60
        secs == total_seconds % 60
    IN  IF hours > 0
        THEN Format02d(hours) \o ":" \o Format02d(minutes) \o ":" \o Format02d(secs)
        ELSE Format02d(minutes) \o ":" \o Format02d(secs)

----------------------------------------------------------------------------
(* Dicts and JSON text *)

EmptyDict == [k \in {} |-> ""]

\* d.get(k, default)
Get(d, k, default) == IF k \in DOMAIN d THEN d[k] ELSE default

RECURSIVE Indent(_)
Indent(level) == IF level = 0 THEN "" ELSE "  " \o Indent(level - 1)

RECURSIVE Items(_, _)
\* The items of a container, one per line, separated by commas.
Items(xs, level) ==
    IF xs = <<>> THEN ""
    ELSE Indent(level) \o Head(xs)
         \o (IF Tail(xs) = <<>> THEN "" ELSE ",\n" \o Items(Tail(xs), level))

\* A container at nesting depth `level`, as indent=2 lays it out.
Block(open, close, xs, level) ==
    IF xs = <<>> THEN open \o close
    ELSE open \o "\n" \o Items(xs, level + 1) \o "\n" \o Indent(level) \o close

\* A string in quotes.  The strings of this model hold no quote, backslash,
\* control or non-ASCII character, the ones json.dumps would escape.
dumps_str(s) == "\"" \o s \o "\""

\* A non-negative float, given in tenths.
dumps_float(tenths) == ToString(tenths \div 10) \o "." \o ToString(tenths % 10)

Member(k, v) == dumps_str(k) \o ": " \o v

\* The keys of a segment in the order the backend inserts them.
SegmentKeys == <<"text", "start", "duration", "lang">>

dumps_segment(segment, level) ==
    LET Value(k) == IF k = "duration" THEN dumps_float(segment[k])
                    ELSE dumps_str(segment[k])
        present == SelectSeq(SegmentKeys, LAMBDA k : k \in DOMAIN segment)
    IN  Block("{", "}",
              [n \in 1..Len(present) |-> Member(present[n], Value(present[n]))],
              level)

DetailKeys ==
    <<"title", "description", "channel_title", "published_at", "duration",
      "view_count", "like_count", "comment_count">>

dumps_details(details, level) ==
    Block("{", "}",
          [n \in 1..Len(DetailKeys) |->
              Member(DetailKeys[n], dumps_str(details[DetailKeys[n]]))],
          level)

\* The keys of a result in the order the code inserts them.
ResultKeys == <<"video_id", "transcript", "video_details", "error">>

\* json.dumps(result, indent=2)
json_dumps(res) ==
    LET Value(k) ==
            CASE k = "transcript" ->
                    Block("[", "]",
                          [n \in 1..Len(res[k]) |-> dumps_segment(res[k][n], 2)],
                          1)
              [] k = "video_details" -> dumps_details(res[k], 1)
              [] OTHER -> dumps_str(res[k])
        present == SelectSeq(ResultKeys, LAMBDA k : k \in DOMAIN res)
    IN  Block("{", "}",
              [n \in 1..Len(present) |-> Member(present[n], Value(present[n]))],
              0)

----------------------------------------------------------------------------
(* The backends' outcomes *)

\* Concurrent tool calls in flight.
MaxRequests == 2

\* Segments in a transcript.
MaxSegments == 2

Requests == 1..MaxRequests

ToolName == "get_youtube_video_transcript"

Url1 ==
    <<"h", "t", "t", "p", "s", ":", "/", "/", "w", "w", "w", ".">>
    \o YoutubeCom
    \o <<"w", "a", "t", "c", "h", "?", "v", "=">>
    \o <<"d", "Q", "w", "4", "w", "9", "W", "g", "X", "c", "Q">>

Url2 ==
    <<"y", "o", "u", "t", "u", ".", "b", "e", "/">>
    \o <<"a", "_", "b", "-", "c", "_", "d", "-", "e", "_", "f">>

NotAUrl == <<"n", "o", "t", " ", "a", " ", "u", "r", "l">>

\* The arguments of a tool call.
Arguments ==
    { EmptyDict, [uri |-> Url1], [url |-> <<>>], [url |-> NotAUrl],
      [url |-> Url1], [url |-> Url2] }

Names == { ToolName, "get_video_comments" }

Segments ==
    { [text |-> "Hi", start |-> 50, duration |-> 20],
      [text |-> "there", start |-> 599, duration |-> 15],
      [text |-> "end", start |-> 36610, duration |-> 30, lang |-> "en"] }

FetchOk(segments) == [ok |-> TRUE, segments |-> segments, exc |-> NoExc]

FetchFailed(e) == [ok |-> FALSE, segments |-> <<>>, exc |-> e]

NoFetch == [ok |-> FALSE, segments |-> <<>>, exc |-> NoExc]

\* What youtube_transcript_api.fetch(...).to_raw_data() can do.
TranscriptOutcomes ==
    { FetchOk(s) : s \in UNION { [1..n -> Segments] : n \in 0..MaxSegments } }
    \cup { FetchFailed(Exc("TranscriptsDisabled", "Subtitles are disabled for this video")),
           FetchFailed(Exc("RequestBlocked", "YouTube is blocking requests from your IP")),
           FetchFailed(Exc("ValueError", "Expecting value: line 1 column 1 (char 0)")) }

NoGet == [status |-> 0, exc |-> NoExc]

\* What session.get(url, params=params) can do.
GetOutcomes ==
    { [status |-> 200, exc |-> NoExc],
      [status |-> 403, exc |-> NoExc],
      [status |-> 404, exc |-> NoExc],
      [status |-> 0, exc |-> Exc("ClientConnectorError", "Cannot connect to host www.googleapis.com:443")] }

VideoInfos ==
    { [id |-> "v",
       snippet |-> [title |-> "Never Gonna Give You Up", description |-> "Official video",
                    channelTitle |-> "Rick Astley", publishedAt |-> "2009-10-25T06:57:33Z"],
       statistics |-> [viewCount |-> "1000", likeCount |-> "10", commentCount |-> "1"],
       contentDetails |-> [duration |-> "PT3M33S"]],
      [id |-> "v",
       snippet |-> [title |-> "Never Gonna Give You Up"],
       contentDetails |-> [duration |-> "PT3M33S"]],
      [id |-> "v"] }

Body(data) == [is_none |-> FALSE, data |-> data, exc |-> NoExc]

NoJson == [is_none |-> FALSE, data |-> EmptyDict, exc |-> NoExc]

\* What response.json() can do.
JsonOutcomes ==
    { Body([kind |-> "youtube#videoListResponse", items |-> <<v>>]) : v \in VideoInfos }
    \cup { Body([kind |-> "youtube#videoListResponse", items |-> <<>>]),
           Body([kind |-> "youtube#videoListResponse"]),
           [is_none |-> TRUE, data |-> EmptyDict, exc |-> NoExc],
           [is_none |-> FALSE, data |-> EmptyDict,
            exc |-> Exc("JSONDecodeError", "Expecting value: line 1 column 1 (char 0)")],
           [is_none |-> FALSE, data |-> EmptyDict,
            exc |-> Exc("ContentTypeError", "Attempt to decode JSON with unexpected mimetype: text/html")] }

\* The module-level configuration, as the environment can set it.
Configs ==
    { [TRANSCRIPT_LANGUAGES |-> l, YOUTUBE_API_KEY |-> "key", proxy |-> p] :
        l \in { <<"en">>, <<"de", "en">> }, p \in BOOLEAN }

----------------------------------------------------------------------------
(* get_video_details *)

\* What leaves `async with session.get(...)` before the body is read: the
\* client's own exception, or the one raised for a status other than 200.
status_error(g) ==
    IF g.exc # NoExc THEN g.exc
    ELSE IF g.status # 200
         THEN Exc("Exception",
                  "YouTube API request failed with status " \o ToString(g.status))
         ELSE NoExc

\* From `data = await response.json()` to the returned dict.
video_details_of(b) ==
    IF b.exc # NoExc THEN Raised(b.exc)
    ELSE IF b.is_none
         THEN Raised(Exc("AttributeError", "'NoneType' object has no attribute 'get'"))
    ELSE IF Get(b.data, "items", <<>>) = <<>>
         THEN Raised(Exc("Exception", "Video not found or unavailable"))
    ELSE LET video_info == b.data.items[1]
             snippet == Get(video_info, "snippet", EmptyDict)
             statistics == Get(video_info, "statistics", EmptyDict)
             content_details == Get(video_info, "contentDetails", EmptyDict)
         IN  Returned([title |-> Get(snippet, "title", ""),
                       description |-> Get(snippet, "description", ""),
                       channel_title |-> Get(snippet, "channelTitle", ""),
                       published_at |-> Get(snippet, "publishedAt", ""),
                       duration |-> Get(content_details, "duration", ""),
                       view_count |-> Get(statistics, "viewCount", "0"),
                       like_count |-> Get(statistics, "likeCount", "0"),
                       comment_count |-> Get(statistics, "commentCount", "0")])

----------------------------------------------------------------------------
(* get_youtube_video_transcript *)

NoResult == [pending |-> TRUE]

\* As format_segment, building the segment anew from the fields it knows.
format_segment_rebuilt(segment) ==
    [text |-> segment.text, start |-> _format_time(segment.start),
     duration |-> segment.duration]

\* {**segment, 'start': _format_time(segment['start'])}
format_segment(segment) ==
    [segment EXCEPT !.start = _format_time(segment.start)]

formatted_transcript(raw) ==
    [n \in 1..Len(raw) |-> format_segment(raw[n])]

\* As InnerExcept, naming one class of the transcript backend.
InnerExcept_one_class(e) == IsInstance(e, "TranscriptsDisabled")

\* except Exception as transcript_error
InnerExcept(e) == IsInstance(e, "Exception")

\* As except_clauses, without the catch-all clause.
except_clauses_value_error_only(e) ==
    IF IsInstance(e, "ValueError")
    THEN [result |-> [error |-> "Invalid YouTube URL: " \o e.msg], raised |-> NoExc]
    ELSE [result |-> [pending |-> TRUE], raised |-> e]

\* As except_clauses, with the catch-all clause first.
except_clauses_catch_all_first(e) ==
    IF IsInstance(e, "Exception")
    THEN [result |-> [error |-> "Failed to process request: " \o e.msg], raised |-> NoExc]
    ELSE [result |-> [pending |-> TRUE], raised |-> e]

\* The clauses of the outer try, in order: what the lookup returns, or the
\* exception that leaves it.
except_clauses(e) ==
    IF IsInstance(e, "ValueError")
    THEN [result |-> [error |-> "Invalid YouTube URL: " \o e.msg], raised |-> NoExc]
    ELSE IF IsInstance(e, "Exception")
    THEN [result |-> [error |-> "Failed to process request: " \o e.msg], raised |-> NoExc]
    ELSE [result |-> NoResult, raised |-> e]

\* An outbound call, as the backend sees it.
CallFetch(vid) ==
    [op |-> "fetch", ev |-> "call", video_id |-> vid,
     languages |-> config.TRANSCRIPT_LANGUAGES]

CallDetails(vid) ==
    [op |-> "get_video_details", ev |-> "call", video_id |-> vid,
     key |-> config.YOUTUBE_API_KEY]

EndOf(op, ok) == [op |-> op, ev |-> IF ok THEN "return" ELSE "raise"]

\* As fetch_events, trying a second time after a failure.
fetch_events_retried(vid, t) ==
    IF t.ok THEN << CallFetch(vid), EndOf("fetch", TRUE) >>
    ELSE << CallFetch(vid), EndOf("fetch", FALSE),
            CallFetch(vid), EndOf("fetch", FALSE) >>

\* youtube_transcript_api.fetch(video_id, languages=...).to_raw_data(): one
\* call, and its end.
fetch_events(vid, t) == << CallFetch(vid), EndOf("fetch", t.ok) >>

\* As bind_video_id, with one variable for all the calls in flight.
bind_video_id_shared(i, vid) == [j \in Requests |-> vid]

\* video_id = _extract_video_id(url): a local of this call.
bind_video_id(i, vid) == [video_id EXCEPT ![i] = vid]

----------------------------------------------------------------------------
(* handle_call_tool *)

\* As not_url, testing only that the key is there.
not_url_missing_only(args) == "url" \notin DOMAIN args

\* url = arguments.get("url"); if not url
not_url(args) == "url" \notin DOMAIN args \/ args.url = <<>>

\* The text of the response once the lookup has returned or raised.
text_content(res, exc) ==
    IF exc = NoExc THEN json_dumps(res) ELSE "Error: " \o exc.msg

\* The lookup ends and the handler answers.
Complete(i, res, exc) ==
    /\ pc' = [pc EXCEPT ![i] = "done"]
    /\ result' = [result EXCEPT ![i] = res]
    /\ raised' = [raised EXCEPT ![i] = exc]
    /\ response' = [response EXCEPT ![i] = text_content(res, exc)]

\* An exception reaches the outer try of the lookup.
Fail(i, e) == Complete(i, except_clauses(e).result, except_clauses(e).raised)

\* The handler answers without a lookup.
Answer(i, text) ==
    /\ pc' = [pc EXCEPT ![i] = "done"]
    /\ response' = [response EXCEPT ![i] = text]
    /\ UNCHANGED <<video_id, raw_transcript, calls, result, raised>>

\* A tool call, from its arrival to its answer or to the first point where
\* it waits (session.get); t is what the transcript backend does if asked.
handle_call_tool(i, n, args, t) ==
    /\ pc[i] = "idle"
    /\ name' = [name EXCEPT ![i] = n]
    /\ arguments' = [arguments EXCEPT ![i] = args]
    /\ UNCHANGED <<http, config, extractVars, formatVars>>
    /\ IF n # ToolName THEN Answer(i, "Unknown tool: " \o n)
       ELSE IF not_url(args) THEN Answer(i, "Error: URL parameter is required")
       ELSE LET x == _extract_video_id(args.url) IN
            IF ~x.ok
            THEN /\ Fail(i, x.exc)
                 /\ UNCHANGED <<video_id, raw_transcript, calls>>
            ELSE /\ video_id' = bind_video_id(i, x.value)
                 /\ raw_transcript' = [raw_transcript EXCEPT ![i] = t]
                 /\ IF t.ok
                    THEN /\ calls' = [calls EXCEPT ![i] = fetch_events(x.value, t)]
                         /\ Complete(i, [video_id |-> x.value,
                                         transcript |-> formatted_transcript(t.segments)],
                                     NoExc)
                    ELSE IF InnerExcept(t.exc)
                    THEN /\ calls' = [calls EXCEPT ![i] =
                                        fetch_events(x.value, t) \o <<CallDetails(x.value)>>]
                         /\ pc' = [pc EXCEPT ![i] = "get"]
                         /\ UNCHANGED <<result, raised, response>>
                    ELSE /\ calls' = [calls EXCEPT ![i] = fetch_events(x.value, t)]
                         /\ Fail(i, t.exc)

\* session.get answers (or fails): the lookup resumes.
session_get(i, g) ==
    /\ pc[i] = "get"
    /\ http' = [http EXCEPT ![i].get = g]
    /\ UNCHANGED <<name, arguments, video_id, raw_transcript, config,
                   extractVars, formatVars>>
    /\ IF status_error(g) # NoExc
       THEN /\ calls' = [calls EXCEPT ![i] = @ \o <<EndOf("get_video_details", FALSE)>>]
            /\ Fail(i, status_error(g))
       ELSE /\ pc' = [pc EXCEPT ![i] = "json"]
            /\ UNCHANGED <<calls, result, raised, response>>

\* response.json() answers (or fails): the lookup resumes and ends.
response_json(i, b) ==
    /\ pc[i] = "json"
    /\ http' = [http EXCEPT ![i].json = b]
    /\ UNCHANGED <<name, arguments, video_id, raw_transcript, config,
                   extractVars, formatVars>>
    /\ calls' = [calls EXCEPT ![i] =
                    @ \o <<EndOf("get_video_details", video_details_of(b).ok)>>]
    /\ IF video_details_of(b).ok
       THEN Complete(i, [video_id |-> video_id[i],
                         video_details |-> video_details_of(b).value],
                     NoExc)
       ELSE Fail(i, video_details_of(b).exc)

----------------------------------------------------------------------------
(* Specifications *)

Pending == [ok |-> FALSE, value |-> "", exc |-> NoExc]

IdleExtract == ex_url = <<>> /\ ex_out = Pending

IdleFormat == ft_in = 0 /\ ft_out = ""

InitTool ==
    /\ pc = [i \in Requests |-> "idle"]
    /\ name = [i \in Requests |-> ""]
    /\ arguments = [i \in Requests |-> EmptyDict]
    /\ video_id = [i \in Requests |-> ""]
    /\ raw_transcript = [i \in Requests |-> NoFetch]
    /\ http = [i \in Requests |-> [get |-> NoGet, json |-> NoJson]]
    /\ calls = [i \in Requests |-> <<>>]
    /\ result = [i \in Requests |-> NoResult]
    /\ raised = [i \in Requests |-> NoExc]
    /\ response = [i \in Requests |-> ""]

Init == InitTool /\ config \in Configs /\ IdleExtract /\ IdleFormat

\* One tool call, over every input and every outcome of the backends.
Next ==
    \/ \E n \in Names, args \in Arguments, t \in TranscriptOutcomes :
          handle_call_tool(1, n, args, t)
    \/ \E g \in GetOutcomes : session_get(1, g)
    \/ \E b \in JsonOutcomes : response_json(1, b)

Spec == Init /\ [][Next]_vars

\* The inputs of the interleaved calls.
SomeArguments == { [url |-> NotAUrl], [url |-> Url1], [url |-> Url2] }

SomeTranscripts ==
    { FetchOk(<<[text |-> "Hi", start |-> 50, duration |-> 20]>>),
      FetchFailed(Exc("TranscriptsDisabled", "Subtitles are disabled for this video")) }

SomeGets == { g \in GetOutcomes : g.status \in {200, 404} }

SomeJsons ==
    { b \in JsonOutcomes :
        \/ b.exc.kind = "JSONDecodeError"
        \/ b.data = [kind |-> "youtube#videoListResponse", items |-> <<>>]
        \/ b.data = [kind |-> "youtube#videoListResponse",
                     items |-> <<[id |-> "v"]>>] }

\* Tool calls of several clients, interleaved where a call waits.
NextConcurrent ==
    \E i \in Requests :
        \/ \E args \in SomeArguments, t \in SomeTranscripts :
              handle_call_tool(i, ToolName, args, t)
        \/ \E g \in SomeGets : session_get(i, g)
        \/ \E b \in SomeJsons : response_json(i, b)

SpecConcurrent == Init /\ [][NextConcurrent]_vars

----------------------------------------------------------------------------
(* _extract_video_id alone *)

\* Pieces appended after the id.
MaxTails == 1

Schemes == { <<>>, <<"h", "t", "t", "p", "s", ":", "/", "/", "w", "w", "w", ".">> }

Hosts ==
    { <<>>, YoutubeCom,
      <<"y", "o", "u", "t", "u", ".", "b", "e", "/">>,
      <<"e", "x", "a", "m", "p", "l", "e", ".", "c", "o", "m", "/">> }

Paths ==
    { <<>>,
      <<"w", "a", "t", "c", "h", "?", "v", "=">>,
      <<"e", "m", "b", "e", "d", "/">>,
      <<"v", "/">>,
      <<"s", "h", "o", "r", "t", "s", "/">>,
      <<"p", "l", "a", "y", "l", "i", "s", "t", "?", "l", "i", "s", "t", "=",
        "P", "L", "&", "v", "=">>,
      <<"w", "a", "t", "c", "h", "?", "t", "=", "1", "\n", "&", "v", "=">> }

Ids ==
    { <<>>,
      <<"d", "Q", "w", "4", "w", "9", "W", "g", "X", "c", "Q">>,
      <<"d", "Q", "w", "4", "w", "9", "W", "g", "X", "c">> }

TailParts ==
    { <<"&", "v", "=", "a", "_", "b", "-", "c", "_", "d", "-", "e", "_", "f">>,
      <<" ", "y", "o", "u", "t", "u", ".", "b", "e", "/",
        "a", "_", "b", "-", "c", "_", "d", "-", "e", "_", "f">>,
      <<"Z">>,
      <<"&", "t", "=", "1", "s">> }

RECURSIVE Concat(_)
Concat(parts) == IF parts = <<>> THEN <<>> ELSE Head(parts) \o Concat(Tail(parts))

TailsOf == { Concat(ts) : ts \in UNION { [1..n -> TailParts] : n \in 0..MaxTails } }

ExtractInputs ==
    { s \o h \o p \o d \o t :
        s \in Schemes, h \in Hosts, p \in Paths, d \in Ids, t \in TailsOf }

InitExtract ==
    /\ ex_url \in ExtractInputs
    /\ ex_out = Pending
    /\ IdleFormat
    /\ InitTool
    /\ config \in { c \in Configs : c.TRANSCRIPT_LANGUAGES = <<"en">> /\ ~c.proxy }

extract ==
    /\ ex_out = Pending
    /\ ex_out' = _extract_video_id(ex_url)
    /\ UNCHANGED <<ex_url, formatVars, toolVars>>

SpecExtract == InitExtract /\ [][extract]_vars

----------------------------------------------------------------------------
(* _format_time alone *)

\* Whole seconds of the inputs.
MaxSeconds == 3700

\* Ten hours, the last tenth before a hundred hours, a hundred hours.
LongTimes == { 360000, 3599999, 3600000 }

FormatInputs == 0..(10 * MaxSeconds + 9) \cup LongTimes

InitFormat ==
    /\ ft_in \in FormatInputs
    /\ ft_out = ""
    /\ IdleExtract
    /\ InitTool
    /\ config \in { c \in Configs : c.TRANSCRIPT_LANGUAGES = <<"en">> /\ ~c.proxy }

format ==
    /\ ft_out = ""
    /\ ft_out' = _format_time(ft_in)
    /\ UNCHANGED <<ft_in, extractVars, toolVars>>

SpecFormat == InitFormat /\ [][format]_vars

----------------------------------------------------------------------------
(* Properties of _extract_video_id *)

\* Eleven characters of [A-Za-z0-9_-] stand at position p.
IdFollows(url, p) ==
    /\ p + 10 <= Len(url)
    /\ \A k \in p..(p + 10) : url[k] \in IdChars

IdFrom(url, p) == Str(SubSeq(url, p, p + 10))

Stands(url, p, lit) ==
    /\ p + Len(lit) - 1 <= Len(url)
    /\ SubSeq(url, p, p + Len(lit) - 1) = lit

\* The shapes as the specification words them.
WordedShapes ==
    { <<"w", "a", "t", "c", "h", "?", "v", "=">>,
      <<"y", "o", "u", "t", "u", ".", "b", "e", "/">>,
      <<"e", "m", "b", "e", "d", "/">>,
      <<"/", "v", "/">>,
      <<"/", "s", "h", "o", "r", "t", "s", "/">>,
      <<"?", "v", "=">>,
      <<"&", "v", "=">> }

\* The ids that follow a worded shape somewhere in the URL.
WordedIds(url) ==
    { IdFrom(url, p + Len(lit)) :
        <<p, lit>> \in { x \in (1..Len(url)) \X WordedShapes :
                            /\ Stands(url, x[1], x[2])
                            /\ IdFollows(url, x[1] + Len(x[2])) } }

\* The five shapes with the host they need.
HostedShapes ==
    { YoutubeCom \o <<"w", "a", "t", "c", "h", "?", "v", "=">>,
      <<"y", "o", "u", "t", "u", ".", "b", "e", "/">>,
      YoutubeCom \o <<"e", "m", "b", "e", "d", "/">>,
      YoutubeCom \o <<"v", "/">>,
      YoutubeCom \o <<"s", "h", "o", "r", "t", "s", "/">> }

\* Where a hosted shape stands with an id after it: <<position, shape>>.
HostedAt(url) ==
    { x \in (1..Len(url)) \X HostedShapes :
        /\ Stands(url, x[1], x[2])
        /\ IdFollows(url, x[1] + Len(x[2])) }

\* Where `youtube.com/` stands at p and, later on the same line, ?v=ID or
\* &v=ID stands at q: <<p, q>>.
ParamAfterHost(url) ==
    { x \in (1..Len(url)) \X (1..Len(url)) :
        /\ Stands(url, x[1], YoutubeCom)
        /\ x[2] >= x[1] + Len(YoutubeCom)
        /\ \A k \in (x[1] + Len(YoutubeCom))..(x[2] - 1) : url[k] # "\n"
        /\ url[x[2]] \in {"?", "&"}
        /\ Stands(url, x[2] + 1, <<"v", "=">>)
        /\ IdFollows(url, x[2] + 3) }

Least(S) == CHOOSE m \in S : \A n \in S : m <= n

Greatest(S) == CHOOSE m \in S : \A n \in S : m >= n

\* The id after the leftmost hosted shape.
FirstHostedId(url) ==
    LET x == CHOOSE y \in HostedAt(url) : \A z \in HostedAt(url) : y[1] <= z[1]
    IN  IdFrom(url, x[1] + Len(x[2]))

\* The id of the last v= parameter in reach of the leftmost `youtube.com/`
\* that has one.
LastParamId(url) ==
    LET p == Least({ x[1] : x \in ParamAfterHost(url) })
        q == Greatest({ x[2] : x \in { y \in ParamAfterHost(url) : y[1] = p } })
    IN  IdFrom(url, q + 3)

\* C9 as worded: a URL that holds one of the shapes watch?v=ID, youtu.be/ID,
\* embed/ID, /v/ID, /shorts/ID or a v=ID query parameter, ID being eleven id
\* characters, makes extract return such an ID.
C9_AnyUrlWithShape ==
    (ex_out # Pending /\ WordedIds(ex_url) # {})
        => (ex_out.ok /\ ex_out.value \in WordedIds(ex_url))

\* C9 amended: a URL that holds youtu.be/ID, or watch?v=ID, embed/ID, v/ID or
\* shorts/ID right after `youtube.com/`, makes extract return the ID after the
\* leftmost of these; a URL that holds none of them but holds `youtube.com/`
\* followed on the same line by ?v=ID or &v=ID makes extract return the ID of
\* the last such parameter: the first pattern that matches decides.
C9_HostedShape ==
    ex_out # Pending =>
        /\ HostedAt(ex_url) # {}
              => (ex_out.ok /\ ex_out.value = FirstHostedId(ex_url))
        /\ (HostedAt(ex_url) = {} /\ ParamAfterHost(ex_url) # {})
              => (ex_out.ok /\ ex_out.value = LastParamId(ex_url))

\* Both patterns match, on different ids, and the first one decided.
C9_Witness ==
    /\ ex_out.ok
    /\ HostedAt(ex_url) # {}
    /\ ParamAfterHost(ex_url) # {}
    /\ FirstHostedId(ex_url) # LastParamId(ex_url)
    /\ ex_out.value = FirstHostedId(ex_url)

----------------------------------------------------------------------------
(* Properties of _format_time *)

Digits == <<"0", "1", "2", "3", "4", "5", "6", "7", "8", "9">>

RECURSIVE Decimal(_)
Decimal(n) ==
    IF n < 10 THEN Digits[n + 1] ELSE Decimal(n \div 10) \o Digits[(n % 10) + 1]

\* n in decimal, with a leading zero when it has one digit.
TwoDigits(n) == IF n < 10 THEN "0" \o Decimal(n) ELSE Decimal(n)

\* The whole seconds of a time given in tenths: the fraction is dropped.
WholeSeconds(tenths) == (tenths - (tenths % 10)) \div 10

Clock(t) ==
    LET h == t \div 3600
        m == (t % 3600) \div 60
        s == t % 60
    IN  IF h = 0 THEN TwoDigits(m) \o ":" \o TwoDigits(s)
        ELSE TwoDigits(h) \o ":" \o TwoDigits(m) \o ":" \o TwoDigits(s)

\* C10: for every non-negative time, format returns the clock reading of the
\* time truncated to whole seconds: MM:SS when the hours are zero, HH:MM:SS
\* otherwise, each field at least two digits; format(0) = "00:00",
\* format(65) = "01:05", format(3661) = "01:01:01", format(59.9) = "00:59".
C10_Format ==
    ft_out # "" =>
        /\ ft_out = Clock(WholeSeconds(ft_in))
        /\ ft_in = 0 => ft_out = "00:00"
        /\ ft_in = 650 => ft_out = "01:05"
        /\ ft_in = 36610 => ft_out = "01:01:01"
        /\ ft_in = 599 => ft_out = "00:59"

\* 59.9 seconds has been formatted, and reads 59 seconds.
C10_Witness == ft_in = 599 /\ ft_out = "00:59"

----------------------------------------------------------------------------
(* Properties of a tool call *)

Done(i) == pc[i] = "done"

\* The handler has called the lookup: the tool is the one named and the url
\* argument is there and not empty.
LookupCalled(i) ==
    /\ pc[i] # "idle"
    /\ name[i] = ToolName
    /\ "url" \in DOMAIN arguments[i]
    /\ arguments[i].url # <<>>

TranscriptFailed(i) == raw_transcript[i].exc # NoExc

\* The places of the log where the metadata fetch is called.
DetailsCalls(i) ==
    { k \in DOMAIN calls[i] :
        calls[i][k].op = "get_video_details" /\ calls[i][k].ev = "call" }

TranscriptShape == {"video_id", "transcript"}

DetailsShape == {"video_id", "video_details"}

ErrorShape == {"error"}

\* C1: when the URL yields a video id and the transcript fetch fails, whatever
\* the exception, the metadata fetch is called exactly once, for that id, and
\* the lookup returns the video_details variant or the error variant; it
\* raises nothing and returns no transcript.
C1_Fallback ==
    \A i \in Requests :
        (video_id[i] # "" /\ TranscriptFailed(i)) =>
            /\ Cardinality(DetailsCalls(i)) = 1
            /\ \A k \in DetailsCalls(i) : calls[i][k].video_id = video_id[i]
            /\ raised[i] = NoExc
            /\ Done(i) => DOMAIN result[i] \in {DetailsShape, ErrorShape}

\* The transcript backend raised a ValueError and the lookup returned the
\* details.
C1_Witness ==
    /\ Done(1)
    /\ raw_transcript[1].exc.kind = "ValueError"
    /\ DOMAIN result[1] = DetailsShape

\* C2: whatever the URL and whatever the extractor and the two backends do,
\* the lookup returns, nothing leaves it as an exception, and what it returns
\* has exactly one of the three shapes.
C2_OneShape ==
    \A i \in Requests :
        (Done(i) /\ LookupCalled(i)) =>
            /\ raised[i] = NoExc
            /\ DOMAIN result[i] \in {TranscriptShape, DetailsShape, ErrorShape}

\* The transcript fetch failed, the metadata answer came with status 200 and
\* could not be used, and the lookup returned the error variant.
C2_Witness ==
    /\ Done(1)
    /\ TranscriptFailed(1)
    /\ http[1].get.status = 200
    /\ http[1].json.exc.kind = "ContentTypeError"
    /\ DOMAIN result[1] = ErrorShape

\* C3: when the transcript fetch succeeds, the lookup returns the transcript
\* variant: as many segments as the backend gave, in its order, each with its
\* start replaced by the clock reading of that start and every other field
\* as it was; the metadata fetch is not called.
C3_Transcript ==
    \A i \in Requests :
        (Done(i) /\ raw_transcript[i].ok) =>
            /\ DOMAIN result[i] = TranscriptShape
            /\ result[i].video_id = video_id[i]
            /\ Len(result[i].transcript) = Len(raw_transcript[i].segments)
            /\ \A k \in 1..Len(raw_transcript[i].segments) :
                  LET before == raw_transcript[i].segments[k]
                      after == result[i].transcript[k]
                  IN  /\ DOMAIN after = DOMAIN before
                      /\ after.start = Clock(WholeSeconds(before.start))
                      /\ \A f \in DOMAIN before \ {"start"} : after[f] = before[f]
            /\ DetailsCalls(i) = {}

\* Two different segments came back, the second with a field of its own, and
\* the transcript was returned.
C3_Witness ==
    /\ Done(1)
    /\ raw_transcript[1].ok
    /\ Len(raw_transcript[1].segments) = 2
    /\ raw_transcript[1].segments[1].text = "there"
    /\ "lang" \in DOMAIN raw_transcript[1].segments[2]
    /\ result[1].transcript[1].start = "00:59"

\* The log of a lookup, without the arguments of the calls.
Trace(i) == [k \in DOMAIN calls[i] |-> <<calls[i][k].op, calls[i][k].ev>>]

IsPrefix(s, t) == Len(s) <= Len(t) /\ SubSeq(t, 1, Len(s)) = s

\* The complete logs a lookup may leave.
Allowed ==
    { << <<"fetch", "call">>, <<"fetch", "return">> >>,
      << <<"fetch", "call">>, <<"fetch", "raise">>,
         <<"get_video_details", "call">>, <<"get_video_details", "return">> >>,
      << <<"fetch", "call">>, <<"fetch", "raise">>,
         <<"get_video_details", "call">>, <<"get_video_details", "raise">> >> }

\* C4: a lookup calls the transcript backend at most once and the metadata
\* backend at most once, in that order, the second only after the first has
\* ended in failure; neither is called again.
C4_CallOrder ==
    \A i \in Requests :
        /\ \E a \in Allowed : IsPrefix(Trace(i), a)
        /\ DetailsCalls(i) # {} => (~raw_transcript[i].ok /\ TranscriptFailed(i))

\* Both backends were called, one after the other, and both failed.
C4_Witness ==
    /\ Done(1)
    /\ Trace(1) = << <<"fetch", "call">>, <<"fetch", "raise">>,
                     <<"get_video_details", "call">>,
                     <<"get_video_details", "raise">> >>

\* The metadata fetch of request i has failed.
DetailsFailed(i) ==
    /\ calls[i] # <<>>
    /\ calls[i][Len(calls[i])] = EndOf("get_video_details", FALSE)

\* The exception the metadata fetch of request i raised.
DetailsError(i) ==
    IF status_error(http[i].get) # NoExc THEN status_error(http[i].get)
    ELSE video_details_of(http[i].json).exc

\* C5: when the fallback metadata fetch fails, for a status other than 200,
\* for an empty list of items or for any other exception, the lookup returns
\* the error "Failed to process request: " followed by the message of that
\* failure.
C5_DetailsFailure ==
    \A i \in Requests :
        (Done(i) /\ DetailsFailed(i)) =>
            result[i] = [error |-> "Failed to process request: " \o DetailsError(i).msg]

\* C6: when the extractor finds no video id in the URL, the lookup ends at
\* once with the error "Invalid YouTube URL: No valid YouTube video ID found
\* in URL" and calls neither backend.
C6_InvalidUrl ==
    \A i \in Requests :
        (LookupCalled(i) /\ ~_extract_video_id(arguments[i].url).ok) =>
            /\ Done(i)
            /\ result[i] =
                 [error |-> "Invalid YouTube URL: No valid YouTube video ID found in URL"]
            /\ calls[i] = <<>>

\* "not a url" was looked up.
C6_Witness ==
    /\ Done(1)
    /\ name[1] = ToolName
    /\ arguments[1] = [url |-> NotAUrl]
    /\ DOMAIN result[1] = ErrorShape

RequiredText == "Error: URL parameter is required"

\* What the tool answers when the plain text is due exactly under NoUrl.
ToolAnswers(i, NoUrl) ==
    /\ response[i] = RequiredText <=> NoUrl
    /\ NoUrl => (result[i] = NoResult /\ calls[i] = <<>>)
    /\ ~NoUrl =>
          /\ result[i] # NoResult
          /\ response[i] = json_dumps(result[i])
          /\ DOMAIN result[i] = ErrorShape =>
                response[i] = "{\n  \"error\": \"" \o result[i].error \o "\"\n}"

\* C7 as worded: the tool answers the plain text "Error: URL parameter is
\* required" exactly when the url argument is missing, without a lookup, and
\* otherwise the JSON text of what the lookup returned.
C7_PlainTextIffMissing ==
    \A i \in Requests :
        (Done(i) /\ name[i] = ToolName) =>
            ToolAnswers(i, "url" \notin DOMAIN arguments[i])

\* C7 amended: the tool answers the plain text "Error: URL parameter is
\* required" exactly when the url argument is missing or empty, without a
\* lookup, and otherwise the JSON text of what the lookup returned; a failed
\* lookup is answered as {"error": "<message>"}.
C7_PlainTextIffNoUrl ==
    \A i \in Requests :
        (Done(i) /\ name[i] = ToolName) =>
            ToolAnswers(i, \/ "url" \notin DOMAIN arguments[i]
                           \/ arguments[i].url = <<>>)

\* The url argument was there, empty, and the tool answered the plain text.
C7_Witness ==
    /\ Done(1)
    /\ name[1] = ToolName
    /\ arguments[1] = [url |-> <<>>]
    /\ response[1] = RequiredText

\* What a lookup returns when it runs alone: on url, with the transcript
\* backend doing t, session.get doing g and response.json doing b.
LookupAlone(url, t, g, b) ==
    LET x == _extract_video_id(url) IN
    IF ~x.ok THEN except_clauses(x.exc).result
    ELSE IF t.ok
         THEN [video_id |-> x.value, transcript |-> formatted_transcript(t.segments)]
    ELSE IF status_error(g) # NoExc THEN except_clauses(status_error(g)).result
    ELSE IF video_details_of(b).ok
         THEN [video_id |-> x.value, video_details |-> video_details_of(b).value]
    ELSE except_clauses(video_details_of(b).exc).result

\* What request i holds of its own.
Local(i) ==
    <<name[i], arguments[i], video_id[i], raw_transcript[i], http[i], calls[i],
      result[i], raised[i], response[i]>>

\* C8: however the lookups are interleaved where they wait, the configuration
\* is never written, a step of one lookup leaves what the others hold as it
\* was, and each lookup returns what it would have returned alone on the same
\* URL and the same answers of the backends.
C8_Isolation ==
    /\ [][/\ config' = config
          /\ \A i \in Requests : pc'[i] = pc[i] => Local(i)' = Local(i)]_vars
    /\ [](\A i \in Requests :
            Done(i) => result[i] = LookupAlone(arguments[i].url, raw_transcript[i],
                                               http[i].get, http[i].json))

\* Two lookups wait at the same time, on different videos.
C8_Witness ==
    /\ pc[1] = "json"
    /\ pc[2] = "get"
    /\ video_id[1] # video_id[2]

====
